---- MODULE Spec2Model ----
(***************************************************************************)
(* The race-results ledger of necrobot (necrobot/botbase/necrodb.py): the  *)
(* DBConnect cursor scope, the user registry, the race recorder and the    *)
(* daily-challenge tracker, over a relational store of keyed tables.       *)
(*                                                                         *)
(* A table is a set of rows (records).  `store` is the committed content   *)
(* of the database, `session` is what the one shared connection sees (the  *)
(* committed content plus its own uncommitted writes).  Every engine       *)
(* function is one action: __enter__, the statements of its body in order, *)
(* and __exit__.  cursor.rowcount after a SELECT is taken to be the number *)
(* of rows of the result set.  `cursor` is the state of the cursor of the  *)
(* latest DBConnect scope.  `procs` holds the executions that run          *)
(* statement by statement on the shared connection, for the operations     *)
(* whose interleavings are examined.                                       *)
(***************************************************************************)
EXTENDS Integers, Sequences, FiniteSets, TLC

VARIABLES db_connection, store, session, cursor, last, procs

vars == <<db_connection, store, session, cursor, last, procs>>

\* ---------------------------------------------------------------- bounds
NumUsers == 2
MaxRaces == 2
MaxRankRacers == 4
MaxRankTime == 1
MaxDailyId == 2

\* -------------------------------------------------------- value domains
None == "None"          \* Python None
NULL == "NULL"          \* SQL NULL
Ids == 1..NumUsers
Names == {"ann", "bob"}

MaxOf(S) == CHOOSE m \in S : \A x \in S : x <= m

\* Python bool passed as a statement parameter is stored as a tinyint
SqlBool(b) == IF b = "True" THEN 1 ELSE 0
\* bool(column value) as Python evaluates it on a fetched tinyint
PyBool(v) == IF v = 0 THEN "False" ELSE "True"

\* columns an INSERT does not name take the column default
AlertDefault == 0
NewUser(id, name) ==
    [discord_id |-> id, name |-> name, twitch_name |-> NULL, rtmp_name |-> NULL,
     timezone |-> NULL, user_info |-> NULL,
     daily_alert |-> AlertDefault, race_alert |-> AlertDefault]

EmptyDb ==
    [user_data |-> {}, race_data |-> {}, racer_data |-> {}, daily_races |-> {},
     daily_data |-> {}, ladder_data |-> {}]

\* the executions that can be under way at once, and one that is not
Executors == {"a", "b"}
Idle == [pc |-> "idle"]

\* execution p goes on as rec
Proceed(p, rec) == procs' = [procs EXCEPT ![p] = rec]

\* ------------------------------------------------------------ DBConnect
\* __enter__: connect on first use, reconnect a dropped connection; `live`
\* is whether connect()/reconnect() yields a live connection.  A failed
\* connect() leaves db_connection as it was.  attempts counts the calls of
\* connect()/reconnect(); cursor is self.cursor when __enter__ is left.
Enter_unchecked(conn, live) ==
    IF conn = "connected"
    THEN [db_connection |-> "connected", raised |-> FALSE, fresh |-> FALSE,
          attempts |-> 0, cursor |-> "open"]
    ELSE [db_connection |-> IF live THEN "connected" ELSE conn, raised |-> FALSE,
          fresh |-> TRUE, attempts |-> 1, cursor |-> "open"]
Enter(conn, live) ==
    IF conn = "connected"
    THEN [db_connection |-> "connected", raised |-> FALSE, fresh |-> FALSE,
          attempts |-> 0, cursor |-> "open"]
    ELSE IF live
         THEN [db_connection |-> "connected", raised |-> FALSE, fresh |-> TRUE,
               attempts |-> 1, cursor |-> "open"]
         ELSE [db_connection |-> conn, raised |-> TRUE, fresh |-> FALSE,
               attempts |-> 1, cursor |-> None]

\* __exit__(exc_type, ...): commits whenever the scope was opened with
\* commit=True; exc_type is not looked at.  Result: the committed content.
Exit(commit, exc, committed, work) ==
    IF commit THEN work ELSE committed

\* __exit__: self.cursor.close() follows the commit on every path
ExitCursor_completed(exc) == IF exc = None THEN "closed" ELSE "open"
ExitCursor(exc) == "closed"

\* what connect()/reconnect() can yield where __enter__ would call them
Lives == IF db_connection = "connected" THEN {TRUE} ELSE BOOLEAN

\* the process-wide connection and the two views of the database
World ==
    [db_connection |-> db_connection, store |-> store, session |-> session,
     cursor |-> cursor]

\* what the cursor of a scope entered in world w reads: the session's view,
\* or the committed content when __enter__ opens a new server session
View(w, live) ==
    IF Enter(w.db_connection, live).fresh THEN w.store ELSE w.session

\* `with DBConnect(commit) as cursor: body` run in world w.  out is the
\* outcome of the body on View(w, live): [db, exc] plus what it returns (it
\* is not run when __enter__ raises).  Result: the world after __exit__ and
\* the outcome r (without db).
Scope(w, commit, live, out) ==
    LET e == Enter(w.db_connection, live) IN
    IF e.raised
    THEN [w |-> [w EXCEPT !.db_connection = e.db_connection, !.cursor = e.cursor],
          r |-> [exc |-> "RuntimeError", attempts |-> e.attempts]]
    ELSE [w |-> [db_connection |-> e.db_connection,
                 store |-> Exit(commit, out.exc, w.store, out.db),
                 session |-> out.db,
                 cursor |-> ExitCursor(out.exc)],
          r |-> [x \in (DOMAIN out) \ {"db"} |-> out[x]]]

\* one call of an engine function: the world it leaves, and the record of
\* the call (its arguments and outcome; a connection error keeps the name)
Call(call, s) ==
    /\ db_connection' = s.w.db_connection
    /\ store' = s.w.store
    /\ session' = s.w.session
    /\ cursor' = s.w.cursor
    /\ last' = IF s.r.exc = "RuntimeError"
               THEN [op |-> call.op, exc |-> "RuntimeError", attempts |-> s.r.attempts]
               ELSE call @@ s.r
    /\ UNCHANGED procs

Transact(call, commit, live, out) == Call(call, Scope(World, commit, live, out))

\* --------------------------------------------------------- user registry
HasUser(db, id) == \E u \in db.user_data : u.discord_id = id
UserRows(db, id) == {u \in db.user_data : u.discord_id = id}

\* names stored for a discord_id before a call (kept with the call's record)
NamesOf(db, id) == {u.name : u \in UserRows(db, id)}

\* INSERT INTO user_data (discord_id, name) VALUES (..)
\* ON DUPLICATE KEY UPDATE name=VALUES(name)
UpsertIdentity_insert(db, id, name) ==
    [db EXCEPT !.user_data = @ \cup {NewUser(id, name)}]
UpsertIdentity_replace(db, id, name) ==
    [db EXCEPT !.user_data = {u \in @ : u.discord_id # id} \cup {NewUser(id, name)}]
UpsertIdentity(db, id, name) ==
    IF HasUser(db, id)
    THEN [db EXCEPT !.user_data =
            {IF u.discord_id = id THEN [u EXCEPT !.name = name] ELSE u : u \in @}]
    ELSE [db EXCEPT !.user_data = @ \cup {NewUser(id, name)}]

register_user(db, member) ==
    [db |-> UpsertIdentity(db, member.id, member.name), exc |-> None]

RegisterUser ==
    \E live \in Lives, id \in Ids, name \in Names :
        LET member == [id |-> id, name |-> name]
            view == View(World, live)
            out == register_user(view, member)
        IN Transact([op |-> "register_user", member |-> member,
                     had |-> NamesOf(store, id)], TRUE, live, out)

\* register_all_users: the same statement for every member of the list, with
\* member.display_name, in one commit=True scope
RECURSIVE UpsertMembers(_, _, _)
UpsertMembers(db, members, i) ==
    IF i > Len(members) THEN db
    ELSE UpsertMembers(UpsertIdentity(db, members[i].id, members[i].display_name),
                       members, i + 1)

register_all_users(db, members) ==
    [db |-> UpsertMembers(db, members, 1), exc |-> None]

\* the member lists a server hands over: none, one or two members
MemberLists ==
    UNION {[1..n -> [id : Ids, display_name : Names]] : n \in 0..2}

RegisterAllUsers ==
    \E live \in Lives, members \in MemberLists :
        LET view == View(World, live)
            out == register_all_users(view, members)
        IN Transact([op |-> "register_all_users", members |-> members],
                    TRUE, live, out)

\* UPDATE user_data SET timezone=%s WHERE discord_id=%s
set_timezone(db, discord_id, timezone) ==
    [db |-> [db EXCEPT !.user_data =
               {IF u.discord_id = discord_id THEN [u EXCEPT !.timezone = timezone]
                ELSE u : u \in @}],
     exc |-> None]

Timezones == {"UTC"}

SetTimezone ==
    \E live \in Lives, id \in Ids, timezone \in Timezones :
        LET view == View(World, live)
            out == set_timezone(view, id, timezone)
        IN Transact([op |-> "set_timezone", discord_id |-> id, timezone |-> timezone],
                    TRUE, live, out)

\* ----------------------------------------------------------- preferences
\* UserPrefs(): both fields None until set
UserPrefs == [daily_alert |-> None, race_alert |-> None]

\* UserPrefs.merge_prefs: a field the argument leaves unset keeps the value
\* of the receiver
merge_prefs(self, user_prefs) ==
    [daily_alert |-> IF user_prefs.daily_alert # None
                     THEN user_prefs.daily_alert ELSE self.daily_alert,
     race_alert |-> IF user_prefs.race_alert # None
                    THEN user_prefs.race_alert ELSE self.race_alert]

\* SELECT daily_alert, race_alert FROM user_data WHERE discord_id=%s;
\* prefs_row = cursor.fetchone() is None when no row matches, and
\* prefs_row[0] then raises TypeError
get_prefs_default(db, discord_id) ==
    IF ~HasUser(db, discord_id)
    THEN [db |-> db, exc |-> None,
          prefs |-> [daily_alert |-> "False", race_alert |-> "False"]]
    ELSE LET prefs_row == CHOOSE u \in UserRows(db, discord_id) : TRUE
         IN [db |-> db, exc |-> None,
             prefs |-> [daily_alert |-> PyBool(prefs_row.daily_alert),
                        race_alert |-> PyBool(prefs_row.race_alert)]]
get_prefs(db, discord_id) ==
    IF ~HasUser(db, discord_id)
    THEN [db |-> db, exc |-> "TypeError"]
    ELSE LET prefs_row == CHOOSE u \in UserRows(db, discord_id) : TRUE
         IN [db |-> db, exc |-> None,
             prefs |-> [daily_alert |-> PyBool(prefs_row.daily_alert),
                        race_alert |-> PyBool(prefs_row.race_alert)]]

GetPrefs ==
    \E live \in Lives, id \in Ids :
        LET view == View(World, live)
            out == get_prefs(view, id)
        IN Transact([op |-> "get_prefs", discord_id |-> id], FALSE, live, out)

\* INSERT INTO user_data (discord_id, daily_alert, race_alert) VALUES (..)
\* ON DUPLICATE KEY UPDATE daily_alert=VALUES(daily_alert),
\* race_alert=VALUES(race_alert)
UpsertPrefs_swapped(db, id, daily_alert, race_alert) ==
    IF HasUser(db, id)
    THEN [db EXCEPT !.user_data =
            {IF u.discord_id = id
             THEN [u EXCEPT !.daily_alert = SqlBool(daily_alert),
                            !.race_alert = SqlBool(daily_alert)]
             ELSE u : u \in @}]
    ELSE [db EXCEPT !.user_data = @ \cup
            {[NewUser(id, NULL) EXCEPT !.daily_alert = SqlBool(daily_alert),
                                       !.race_alert = SqlBool(daily_alert)]}]
UpsertPrefs(db, id, daily_alert, race_alert) ==
    IF HasUser(db, id)
    THEN [db EXCEPT !.user_data =
            {IF u.discord_id = id
             THEN [u EXCEPT !.daily_alert = SqlBool(daily_alert),
                            !.race_alert = SqlBool(race_alert)]
             ELSE u : u \in @}]
    ELSE [db EXCEPT !.user_data = @ \cup
            {[NewUser(id, NULL) EXCEPT !.daily_alert = SqlBool(daily_alert),
                                       !.race_alert = SqlBool(race_alert)]}]

\* the partial preferences a caller passes: each field None, True or False
PartialPrefs == [daily_alert : {None, "True", "False"}, race_alert : {None, "True", "False"}]

\* set_prefs: get_prefs in its own read scope, merge_prefs on what it
\* returns, then the upsert in a commit scope; an exception of get_prefs
\* ends the call before the second scope is opened
SetPrefs ==
    \E live \in Lives, id \in Ids, user_prefs \in PartialPrefs :
        LET call == [op |-> "set_prefs", discord_id |-> id, user_prefs |-> user_prefs]
            s1 == Scope(World, FALSE, live, get_prefs(View(World, live), id))
            new_user_prefs == merge_prefs(s1.r.prefs, user_prefs)
            write == [db |-> UpsertPrefs(View(s1.w, TRUE), id,
                                         new_user_prefs.daily_alert,
                                         new_user_prefs.race_alert),
                      exc |-> None]
        IN IF s1.r.exc # None
           THEN Call(call, s1)
           ELSE Call(call, Scope(s1.w, TRUE, TRUE, write))

\* UserPrefs.is_empty: no field is set
is_empty(user_prefs) == user_prefs.daily_alert = None /\ user_prefs.race_alert = None

\* SELECT discord_id FROM user_data WHERE {where_query}: one
\* ' AND <column>=TRUE|FALSE' per field that is not None, the leading
\* ' AND ' cut off; to_return holds int(row[0]) of every row (as a set: the
\* rows come in the server's order, one per discord_id)
MatchingIds_any(db, user_prefs) ==
    {u.discord_id : u \in
        {u \in db.user_data :
            \/ (user_prefs.daily_alert # None
                /\ u.daily_alert = SqlBool(user_prefs.daily_alert))
            \/ (user_prefs.race_alert # None
                /\ u.race_alert = SqlBool(user_prefs.race_alert))}}
MatchingIds(db, user_prefs) ==
    {u.discord_id : u \in
        {u \in db.user_data :
            /\ (user_prefs.daily_alert # None
                => u.daily_alert = SqlBool(user_prefs.daily_alert))
            /\ (user_prefs.race_alert # None
                => u.race_alert = SqlBool(user_prefs.race_alert))}}

\* get_all_ids_matching_prefs: returns [] before any cursor scope is opened
\* when user_prefs.is_empty
GetAllIdsMatchingPrefs ==
    \E live \in Lives, user_prefs \in PartialPrefs :
        LET call == [op |-> "get_all_ids_matching_prefs", user_prefs |-> user_prefs]
            view == View(World, live)
        IN IF is_empty(user_prefs)
           THEN /\ last' = call @@ [exc |-> None, ids |-> {}]
                /\ UNCHANGED <<db_connection, store, session, cursor, procs>>
           ELSE Transact(call, FALSE, live,
                         [db |-> view, exc |-> None,
                          ids |-> MatchingIds(view, user_prefs)])

\* ---------------------------------------------- set_prefs, scope by scope
\* the outcome of a scope becomes the state of the shared connection
Become(w) ==
    /\ db_connection' = w.db_connection
    /\ store' = w.store
    /\ session' = w.session
    /\ cursor' = w.cursor

\* how many executions have written so far
Written == Cardinality({q \in Executors : procs[q].pc = "done" /\ procs[q].exc = None})

\* prefs = get_prefs(discord_id) in its read scope, then
\* new_user_prefs = prefs.merge_prefs(user_prefs)
SetPrefsRead(p) ==
    /\ procs[p].pc = "idle"
    /\ \E live \in Lives, id \in Ids, user_prefs \in PartialPrefs :
          LET call == [op |-> "set_prefs", discord_id |-> id, user_prefs |-> user_prefs]
              s1 == Scope(World, FALSE, live, get_prefs(View(World, live), id))
          IN /\ Become(s1.w)
             /\ IF s1.r.exc # None
                THEN Proceed(p, call @@ [pc |-> "done", exc |-> s1.r.exc])
                ELSE Proceed(p, call @@ [pc |-> "merged", exc |-> None,
                                         new_user_prefs |-> merge_prefs(s1.r.prefs, user_prefs)])
    /\ UNCHANGED last

\* the upsert of new_user_prefs in its commit=True scope
SetPrefsWrite(p) ==
    /\ procs[p].pc = "merged"
    /\ \E live \in Lives :
          LET write == [db |-> UpsertPrefs(View(World, live), procs[p].discord_id,
                                           procs[p].new_user_prefs.daily_alert,
                                           procs[p].new_user_prefs.race_alert),
                        exc |-> None]
              s2 == Scope(World, TRUE, live, write)
          IN /\ Become(s2.w)
             /\ Proceed(p, [procs[p] EXCEPT !.pc = "done", !.exc = s2.r.exc]
                           @@ [order |-> Written + 1])
    /\ UNCHANGED last

\* ------------------------------------------------------- daily challenges
DailyIds == 1..MaxDailyId
DailyUsers == {1, 2}
DailyTypes == {0}
\* (level, time) of a registration (the defaults) and of a submission
DailyRuns == {[level |-> -1, time |-> -1], [level |-> 3, time |-> 500]}

DailyKey(r) == <<r.discord_id, r.daily_id, r.type>>
DailyRows(db, discord_id, daily_id, daily_type) ==
    {r \in db.daily_races : DailyKey(r) = <<discord_id, daily_id, daily_type>>}

\* SELECT .. WHERE discord_id=%s AND daily_id=%s AND type=%s AND level != -1;
\* return cursor.rowcount > 0
has_submitted_daily(db, discord_id, daily_id, daily_type) ==
    Cardinality({r \in DailyRows(db, discord_id, daily_id, daily_type) : r.level # -1}) > 0

\* SELECT .. WHERE discord_id=%s AND daily_id=%s AND type=%s;
\* return cursor.rowcount > 0
has_registered_daily(db, discord_id, daily_id, daily_type) ==
    Cardinality(DailyRows(db, discord_id, daily_id, daily_type)) > 0

\* INSERT INTO daily_races (discord_id, daily_id, type, level, time)
\* VALUES (..) ON DUPLICATE KEY UPDATE .. level=VALUES(level), time=VALUES(time)
register_daily_keep(db, discord_id, daily_id, daily_type, level, time) ==
    LET row == [discord_id |-> discord_id, daily_id |-> daily_id,
                type |-> daily_type, level |-> level, time |-> time]
    IN IF DailyRows(db, discord_id, daily_id, daily_type) # {} THEN db
       ELSE [db EXCEPT !.daily_races = @ \cup {row}]
register_daily(db, discord_id, daily_id, daily_type, level, time) ==
    LET row == [discord_id |-> discord_id, daily_id |-> daily_id,
                type |-> daily_type, level |-> level, time |-> time]
    IN [db EXCEPT !.daily_races =
          {r \in @ : DailyKey(r) # DailyKey(row)} \cup {row}]

\* UPDATE daily_races SET level=-1 WHERE discord_id=%s AND daily_id=%s AND type=%s
delete_from_daily_row(db, discord_id, daily_id, daily_type) ==
    [db EXCEPT !.daily_races =
       {r \in @ : DailyKey(r) # <<discord_id, daily_id, daily_type>>}]
delete_from_daily(db, discord_id, daily_id, daily_type) ==
    [db EXCEPT !.daily_races =
       {IF DailyKey(r) = <<discord_id, daily_id, daily_type>>
        THEN [r EXCEPT !.level = -1] ELSE r : r \in @}]

DailyCall(op, id, daily_id, daily_type) ==
    [op |-> op, discord_id |-> id, daily_id |-> daily_id, daily_type |-> daily_type]

RegisterDaily ==
    \E live \in Lives, id \in DailyUsers, daily_id \in DailyIds, daily_type \in DailyTypes,
       run \in DailyRuns :
        LET view == View(World, live)
            out ==
                [db |-> register_daily(view, id, daily_id, daily_type,
                                       run.level, run.time),
                 exc |-> None]
        IN Transact(DailyCall("register_daily", id, daily_id, daily_type)
                      @@ [level |-> run.level, time |-> run.time],
                    TRUE, live, out)

DeleteFromDaily ==
    \E live \in Lives, id \in DailyUsers, daily_id \in DailyIds, daily_type \in DailyTypes :
        LET view == View(World, live)
            out ==
                [db |-> delete_from_daily(view, id, daily_id, daily_type),
                 exc |-> None]
        IN Transact(DailyCall("delete_from_daily", id, daily_id, daily_type),
                    TRUE, live, out)

HasSubmittedDaily ==
    \E live \in Lives, id \in DailyUsers, daily_id \in DailyIds, daily_type \in DailyTypes :
        LET view == View(World, live)
            out ==
                [db |-> view, exc |-> None,
                 ret |-> has_submitted_daily(view, id, daily_id, daily_type)]
        IN Transact(DailyCall("has_submitted_daily", id, daily_id, daily_type),
                    FALSE, live, out)

HasRegisteredDaily ==
    \E live \in Lives, id \in DailyUsers, daily_id \in DailyIds, daily_type \in DailyTypes :
        LET view == View(World, live)
            out ==
                [db |-> view, exc |-> None,
                 ret |-> has_registered_daily(view, id, daily_id, daily_type)]
        IN Transact(DailyCall("has_registered_daily", id, daily_id, daily_type),
                    FALSE, live, out)

\* SELECT daily_id FROM daily_races WHERE discord_id=%s AND type=%s
\* ORDER BY daily_id DESC LIMIT 1; int(cursor.fetchone()[0]) if
\* cursor.rowcount else 0
registered_daily(db, discord_id, daily_type) ==
    LET rows == {r \in db.daily_races : r.discord_id = discord_id /\ r.type = daily_type}
    IN [db |-> db, exc |-> None,
        latest |-> IF Cardinality(rows) # 0 THEN MaxOf({r.daily_id : r \in rows}) ELSE 0]

\* The statement is the concatenation of the literals
\* "WHERE discord_id=%s AND type=%s AND level != -1" and "ORDER BY daily_id
\* DESC ": no blank separates -1 from ORDER, the server reads 1ORDER as a
\* name and rejects what follows it as a syntax error, which execute()
\* raises as ProgrammingError
submitted_daily(db, discord_id, daily_type) ==
    [db |-> db, exc |-> "ProgrammingError"]

LatestCall(op, id, daily_type) ==
    [op |-> op, discord_id |-> id, daily_type |-> daily_type]

RegisteredDaily ==
    \E live \in Lives, id \in DailyUsers, daily_type \in DailyTypes :
        LET view == View(World, live)
            out == registered_daily(view, id, daily_type)
        IN Transact(LatestCall("registered_daily", id, daily_type), FALSE, live, out)

SubmittedDaily ==
    \E live \in Lives, id \in DailyUsers, daily_type \in DailyTypes :
        LET view == View(World, live)
            out == submitted_daily(view, id, daily_type)
        IN Transact(LatestCall("submitted_daily", id, daily_type), FALSE, live, out)

\* ------------------------------------------------- daily definitions
DailySeeds == {7, 8}
MessageIds == {0, 5}

\* the key of daily_data
DailyDataKey(r) == <<r.daily_id, r.type>>
DailyDataRows(db, daily_id, daily_type) ==
    {r \in db.daily_data : DailyDataKey(r) = <<daily_id, daily_type>>}

\* INSERT INTO daily_data (daily_id, type, seed, msg_id) VALUES (..): no
\* ON DUPLICATE KEY clause, the server refuses a second row of the same key
create_daily_upsert(db, daily_id, daily_type, seed, message_id) ==
    LET row == [daily_id |-> daily_id, type |-> daily_type, seed |-> seed,
                msg_id |-> message_id]
    IN [db |-> [db EXCEPT !.daily_data =
                  {r \in @ : DailyDataKey(r) # DailyDataKey(row)} \cup {row}],
        exc |-> None]
create_daily(db, daily_id, daily_type, seed, message_id) ==
    LET row == [daily_id |-> daily_id, type |-> daily_type, seed |-> seed,
                msg_id |-> message_id]
    IN IF DailyDataRows(db, daily_id, daily_type) # {}
       THEN [db |-> db, exc |-> "IntegrityError"]
       ELSE [db |-> [db EXCEPT !.daily_data = @ \cup {row}], exc |-> None]

\* UPDATE daily_data SET msg_id=%s WHERE daily_id=%s AND type=%s
register_daily_message(db, daily_id, daily_type, message_id) ==
    [db |-> [db EXCEPT !.daily_data =
               {IF DailyDataKey(r) = <<daily_id, daily_type>>
                THEN [r EXCEPT !.msg_id = message_id] ELSE r : r \in @}],
     exc |-> None]

\* SELECT msg_id FROM daily_data WHERE daily_id=%s AND type=%s;
\* int(cursor.fetchone()[0]) if cursor.rowcount else 0
get_daily_message_id(db, daily_id, daily_type) ==
    LET rows == DailyDataRows(db, daily_id, daily_type)
    IN [db |-> db, exc |-> None,
        msg |-> IF Cardinality(rows) # 0 THEN (CHOOSE r \in rows : TRUE).msg_id ELSE 0]

DailyDefCall(op, daily_id, daily_type) ==
    [op |-> op, daily_id |-> daily_id, daily_type |-> daily_type]

\* callers may leave message_id out: it defaults to 0
CreateDaily ==
    \E live \in Lives, daily_id \in DailyIds, daily_type \in DailyTypes,
       seed \in DailySeeds, message_id \in MessageIds :
        LET view == View(World, live)
            out == create_daily(view, daily_id, daily_type, seed, message_id)
        IN Transact(DailyDefCall("create_daily", daily_id, daily_type)
                      @@ [seed |-> seed, message_id |-> message_id],
                    TRUE, live, out)

RegisterDailyMessage ==
    \E live \in Lives, daily_id \in DailyIds, daily_type \in DailyTypes,
       message_id \in MessageIds :
        LET view == View(World, live)
            out == register_daily_message(view, daily_id, daily_type, message_id)
        IN Transact(DailyDefCall("register_daily_message", daily_id, daily_type)
                      @@ [message_id |-> message_id],
                    TRUE, live, out)

GetDailyMessageId ==
    \E live \in Lives, daily_id \in DailyIds, daily_type \in DailyTypes :
        LET view == View(World, live)
            out == get_daily_message_id(view, daily_id, daily_type)
        IN Transact(DailyDefCall("get_daily_message_id", daily_id, daily_type),
                    FALSE, live, out)

\* ---------------------------------------------------------- race recorder
Larger(a, b) == IF a >= b THEN a ELSE b

\* race.start_datetime.strftime('%Y-%m-%d %H:%M:%S'): second precision,
\* the microseconds of the datetime are not printed
StrFTime(dt) == dt.seconds

\* SELECT race_id FROM race_data ORDER BY race_id DESC LIMIT 1;
\* new_raceid = 0, or row[0] + 1 for the one row read
NewRaceId_dec(db) ==
    IF db.race_data = {} THEN 0
    ELSE MaxOf({r.race_id : r \in db.race_data}) - 1
NewRaceId(db) ==
    IF db.race_data = {} THEN 0
    ELSE MaxOf({r.race_id : r \in db.race_data}) + 1

\* primary keys of the race tables
RaceDataKey(r) == r.race_id
RacerDataKey(r) == <<r.race_id, r.discord_id>>

race_params(new_raceid, race) ==
    [race_id |-> new_raceid,
     timestamp |-> StrFTime(race.start_datetime),
     character_name |-> race.race_info.character_str,
     descriptor |-> race.race_info.descriptor,
     flags |-> race.race_info.flags,
     seed |-> race.race_info.seed,
     seeded |-> race.race_info.seeded,
     amplified |-> race.race_info.amplified,
     condor |-> race.race_info.condor_race,
     private |-> race.race_info.private_race]

racer_params(new_raceid, racer, rank) ==
    [race_id |-> new_raceid, discord_id |-> racer.id, time |-> racer.time,
     rank |-> rank, igt |-> racer.igt, comment |-> racer.comment,
     level |-> racer.level]

\* max_time = 0; for racer in race.racers: if racer.is_finished:
\* max_time = max(racer.time, max_time)
RECURSIVE MaxFinishedTime(_, _, _)
MaxFinishedTime(racers, i, max_time) ==
    IF i > Len(racers) THEN max_time
    ELSE MaxFinishedTime(racers, i + 1,
            IF racers[i].is_finished THEN Larger(racers[i].time, max_time)
            ELSE max_time)

\* key=lambda r: r.time if r.is_finished else max_time
SortKey_time(r, max_time) == r.time
SortKey(r, max_time) == IF r.is_finished THEN r.time ELSE max_time

\* list.sort(key=...): ascending and stable; each racer of the input goes
\* behind the racers already placed whose key is not greater
SortRacers_unsorted(racers, n, max_time) == racers
RECURSIVE SortRacers_ties(_, _, _)
SortRacers_ties(racers, n, max_time) ==
    IF n = 0 THEN <<>>
    ELSE LET sorted == SortRacers_ties(racers, n - 1, max_time)
             k == SortKey(racers[n], max_time)
             pos == Cardinality({j \in 1..Len(sorted) : SortKey(sorted[j], max_time) < k})
         IN SubSeq(sorted, 1, pos) \o <<racers[n]>> \o SubSeq(sorted, pos + 1, Len(sorted))
RECURSIVE SortRacers(_, _, _)
SortRacers(racers, n, max_time) ==
    IF n = 0 THEN <<>>
    ELSE LET sorted == SortRacers(racers, n - 1, max_time)
             k == SortKey(racers[n], max_time)
             pos == Cardinality({j \in 1..Len(sorted) : SortKey(sorted[j], max_time) <= k})
         IN SubSeq(sorted, 1, pos) \o <<racers[n]>> \o SubSeq(sorted, pos + 1, Len(sorted))

\* rank after a racer row was written: if racer.is_finished: rank += 1
RankAfter_always(racer, rank) == rank + 1
RankAfter(racer, rank) == IF racer.is_finished THEN rank + 1 ELSE rank

\* The loop over racer_list.  Statement 1 is the race insert; racer i of the
\* sorted list runs statement 2i (INSERT INTO racer_data) and statement 2i+1
\* (the user_data upsert).  failAt is the statement the server rejects with
\* an error (0: none); a duplicate key is rejected in any case.
RECURSIVE InsertRacers_finished(_, _, _, _, _, _)
InsertRacers_finished(db, new_raceid, racer_list, i, rank, failAt) ==
    IF i > Len(racer_list) THEN [db |-> db, exc |-> None]
    ELSE LET racer == racer_list[i]
             row == racer_params(new_raceid, racer, rank)
             db1 == IF racer.is_finished
                    THEN [db EXCEPT !.racer_data = @ \cup {row}] ELSE db
         IN InsertRacers_finished(UpsertIdentity(db1, racer.id, racer.name),
                                  new_raceid, racer_list, i + 1,
                                  RankAfter(racer, rank), failAt)
RECURSIVE InsertRacers(_, _, _, _, _, _)
InsertRacers(db, new_raceid, racer_list, i, rank, failAt) ==
    IF i > Len(racer_list) THEN [db |-> db, exc |-> None]
    ELSE LET racer == racer_list[i]
             row == racer_params(new_raceid, racer, rank)
         IN IF failAt = 2 * i
            THEN [db |-> db, exc |-> "DatabaseError"]
            ELSE IF \E q \in db.racer_data : RacerDataKey(q) = RacerDataKey(row)
            THEN [db |-> db, exc |-> "IntegrityError"]
            ELSE LET db1 == [db EXCEPT !.racer_data = @ \cup {row}]
                 IN IF failAt = 2 * i + 1
                    THEN [db |-> db1, exc |-> "DatabaseError"]
                    ELSE InsertRacers(UpsertIdentity(db1, racer.id, racer.name),
                                      new_raceid, racer_list, i + 1,
                                      RankAfter(racer, rank), failAt)

record_race(db, race, failAt) ==
    LET new_raceid == NewRaceId(db)
        row == race_params(new_raceid, race)
    IN IF failAt = 1
       THEN [db |-> db, exc |-> "DatabaseError"]
       ELSE IF \E q \in db.race_data : RaceDataKey(q) = RaceDataKey(row)
       THEN [db |-> db, exc |-> "IntegrityError"]
       ELSE LET db1 == [db EXCEPT !.race_data = @ \cup {row}]
                max_time == MaxFinishedTime(race.racers, 1, 0) + 1
                racer_list == SortRacers(race.racers, Len(race.racers), max_time)
            IN InsertRacers(db1, new_raceid, racer_list, 1, 1, failAt)

RecordRace(races, inject) ==
    /\ Cardinality(store.race_data) < MaxRaces
    /\ \E live \in Lives, race \in races :
       \E failAt \in 0..(IF inject THEN 1 + 2 * Len(race.racers) ELSE 0) :
          LET view == View(World, live)
              out == record_race(view, race, failAt)
              had == [i \in 1..Len(race.racers) |-> NamesOf(store, race.racers[i].id)]
          IN Transact([op |-> "record_race", race |-> race, had |-> had],
                      TRUE, live, out)

\* ------------------------------------- record_race, statement by statement
\* Executions of record_race on the shared connection: the connection has
\* one transaction, so every execution reads and writes `session`, and the
\* commit of any __exit__ commits all of it.

\* INSERT INTO race_data (race_id, ..) VALUES (..): refused when race_id
\* is taken
insert_race_replace(db, row) ==
    [db |-> [db EXCEPT !.race_data =
               {g \in @ : RaceDataKey(g) # RaceDataKey(row)} \cup {row}],
     exc |-> None]
insert_race(db, row) ==
    IF \E g \in db.race_data : RaceDataKey(g) = RaceDataKey(row)
    THEN [db |-> db, exc |-> "IntegrityError"]
    ELSE [db |-> [db EXCEPT !.race_data = @ \cup {row}], exc |-> None]

\* __enter__, then SELECT race_id .. ORDER BY race_id DESC LIMIT 1 and
\* new_raceid
RecordRaceSelect(p, races) ==
    /\ procs[p].pc = "idle"
    /\ Cardinality(session.race_data) < MaxRaces
    /\ \E live \in Lives :
          LET e == Enter(db_connection, live)
              view == View(World, live)
              call == [op |-> "record_race", race |-> races[p]]
          IN /\ db_connection' = e.db_connection
             /\ IF e.raised
                THEN /\ Proceed(p, call @@ [pc |-> "done", exc |-> "RuntimeError"])
                     /\ UNCHANGED session
                ELSE /\ Proceed(p, call @@ [pc |-> "selected", exc |-> None,
                                            new_raceid |-> NewRaceId(view)])
                     /\ session' = view
    /\ UNCHANGED <<store, cursor, last>>

\* the INSERT INTO race_data
RecordRaceInsert(p) ==
    /\ procs[p].pc = "selected"
    /\ LET out == insert_race(session, race_params(procs[p].new_raceid, procs[p].race))
       IN /\ session' = out.db
          /\ Proceed(p, [procs[p] EXCEPT
                           !.pc = IF out.exc = None THEN "inserted" ELSE "raised",
                           !.exc = out.exc])
    /\ UNCHANGED <<db_connection, store, cursor, last>>

\* the sort and the loop over racer_list
RecordRaceRacers(p) ==
    /\ procs[p].pc = "inserted"
    /\ LET racers == procs[p].race.racers
           max_time == MaxFinishedTime(racers, 1, 0) + 1
           racer_list == SortRacers(racers, Len(racers), max_time)
           out == InsertRacers(session, procs[p].new_raceid, racer_list, 1, 1, 0)
       IN /\ session' = out.db
          /\ Proceed(p, [procs[p] EXCEPT
                           !.pc = IF out.exc = None THEN "completed" ELSE "raised",
                           !.exc = out.exc])
    /\ UNCHANGED <<db_connection, store, cursor, last>>

\* __exit__ of the commit=True scope; an exception of the body goes on to
\* the caller
RecordRaceExit(p) ==
    /\ procs[p].pc \in {"completed", "raised"}
    /\ store' = Exit(TRUE, procs[p].exc, store, session)
    /\ Proceed(p, [procs[p] EXCEPT !.pc = "done"])
    /\ UNCHANGED <<db_connection, session, cursor, last>>

\* the caller has the outcome
Return(p) ==
    /\ procs[p].pc = "done"
    /\ Proceed(p, Idle)
    /\ UNCHANGED <<db_connection, store, session, cursor, last>>

\* ----------------------------------------------------------- leaderboards
\* the WHERE clause of the subquery rd1 of get_fastest_times_leaderboard, on
\* a racer_data row q joined with its race_data row g
Qualifies(q, g, character_name, amplified) ==
    /\ q.time > 0
    /\ q.level = -2
    /\ g.character_name = character_name
    /\ g.descriptor = "All-zones"
    /\ g.seeded
    /\ (IF amplified THEN g.amplified ELSE ~g.amplified)
    /\ ~g.private

\* racer_data INNER JOIN race_data ON race_data.race_id = racer_data.race_id
RaceJoin(db) ==
    {[q |-> t[1], g |-> t[2]] :
        t \in {t \in db.racer_data \X db.race_data : t[2].race_id = t[1].race_id}}

MinOf(S) == CHOOSE m \in S : \A x \in S : m <= x

\* rd1: SELECT discord_id, MIN(time) AS min_time .. WHERE .. GROUP BY discord_id
MinTimes(db, character_name, amplified) ==
    LET rows == {j \in RaceJoin(db) : Qualifies(j.q, j.g, character_name, amplified)}
    IN {[discord_id |-> d, min_time |-> MinOf({j.q.time : j \in {k \in rows : k.q.discord_id = d}})] :
        d \in {j.q.discord_id : j \in rows}}

\* the outer query: racer_data joined with rd1, user_data and race_data on
\* the racer row's discord_id and race_id, WHERE racer_data.time =
\* rd1.min_time.  A row carries the selected columns (name, time, seed,
\* timestamp) and the racer_data row it was built from (race_id, discord_id).
FastestRows(db, character_name, amplified) ==
    {[name |-> t[3].name, time |-> t[1].q.time, seed |-> t[1].g.seed,
      timestamp |-> t[1].g.timestamp, race_id |-> t[1].q.race_id,
      discord_id |-> t[1].q.discord_id] :
        t \in {t \in RaceJoin(db) \X MinTimes(db, character_name, amplified)
                       \X db.user_data :
                 /\ t[2].discord_id = t[1].q.discord_id
                 /\ t[3].discord_id = t[1].q.discord_id
                 /\ t[1].q.time = t[2].min_time}}

\* ORDER BY racer_data.time ASC LIMIT %s: every list of the rows in
\* ascending time that leaves out only rows not faster than those it keeps
\* (the server orders equal times as it likes)
OrderLimit(rows, limit) ==
    LET n == IF Cardinality(rows) < limit THEN Cardinality(rows) ELSE limit
    IN {l \in [1..n -> rows] :
          /\ \A i, k \in 1..n : i < k => (l[i] # l[k] /\ l[i].time <= l[k].time)
          /\ \A r \in rows \ {l[i] : i \in 1..n} : \A i \in 1..n : l[i].time <= r.time}

BoardCharacters == {"Cadence", "Bard"}
BoardLimits == {1, 5}

\* get_fastest_times_leaderboard: return cursor.fetchall()
GetFastestTimesLeaderboard ==
    \E live \in Lives, character_name \in BoardCharacters, amplified \in BOOLEAN,
       limit \in BoardLimits :
        LET view == View(World, live)
        IN \E rows \in OrderLimit(FastestRows(view, character_name, amplified), limit) :
              Transact([op |-> "get_fastest_times_leaderboard",
                        character_name |-> character_name,
                        amplified |-> amplified, limit |-> limit],
                       FALSE, live, [db |-> view, exc |-> None, rows |-> rows])

\* ORDER BY <column f> DESC LIMIT limit: every list of the rows in
\* descending f that leaves out only rows not greater than those it keeps
OrderDescLimit(rows, f, limit) ==
    LET n == IF Cardinality(rows) < limit THEN Cardinality(rows) ELSE limit
    IN {l \in [1..n -> rows] :
          /\ \A i, k \in 1..n : i < k => (l[i] # l[k] /\ l[i][f] >= l[k][f])
          /\ \A r \in rows \ {l[i] : i \in 1..n} : \A i \in 1..n : l[i][f] >= r[f]}

\* get_allzones_race_numbers: the rows of racer_data JOIN race_data of the
\* user that are All-zones, seeded, not private and of the requested
\* amplified, GROUP BY character_name, descriptor, flags; one result row
\* (character_name, num) per group (flags is kept to tell the groups apart)
AllzonesRows(db, discord_id, amplified) ==
    {j \in RaceJoin(db) :
        /\ j.q.discord_id = discord_id
        /\ j.g.descriptor = "All-zones"
        /\ (IF amplified THEN j.g.amplified ELSE ~j.g.amplified)
        /\ j.g.seeded
        /\ ~j.g.private}
RaceNumbers(db, discord_id, amplified) ==
    LET rows == AllzonesRows(db, discord_id, amplified)
    IN {[character_name |-> grp[1], flags |-> grp[3],
         num |-> Cardinality({j \in rows :
                    <<j.g.character_name, j.g.descriptor, j.g.flags>> = grp})] :
        grp \in {<<j.g.character_name, j.g.descriptor, j.g.flags>> : j \in rows}}

GetAllzonesRaceNumbers ==
    \E live \in Lives, id \in Ids, amplified \in BOOLEAN :
        LET view == View(World, live)
            groups == RaceNumbers(view, id, amplified)
        IN \E rows \in OrderDescLimit(groups, "num", Cardinality(groups)) :
              Transact([op |-> "get_allzones_race_numbers", discord_id |-> id,
                        amplified |-> amplified],
                       FALSE, live, [db |-> view, exc |-> None, rows |-> rows])

\* get_most_races_leaderboard: racer_data JOIN user_data JOIN race_data,
\* GROUP BY user_data.name; per group the number of joined rows of the
\* character's public All-zones races, not amplified (num_predlc) and
\* amplified (num_postdlc), and their sum
UserRaceJoin(db) ==
    {[q |-> t[1].q, g |-> t[1].g, u |-> t[2]] :
        t \in {t \in RaceJoin(db) \X db.user_data :
                 t[2].discord_id = t[1].q.discord_id}}
CountsFor(j, character_name, amplified) ==
    /\ j.g.character_name = character_name
    /\ j.g.descriptor = "All-zones"
    /\ (IF amplified THEN j.g.amplified ELSE ~j.g.amplified)
    /\ ~j.g.private
MostRaces(db, character_name) ==
    LET joined == UserRaceJoin(db)
        num(name, amplified) ==
            Cardinality({j \in joined :
                j.u.name = name /\ CountsFor(j, character_name, amplified)})
    IN {[user_name |-> name, total |-> num(name, FALSE) + num(name, TRUE),
         num_predlc |-> num(name, FALSE), num_postdlc |-> num(name, TRUE)] :
        name \in {j.u.name : j \in joined}}

GetMostRacesLeaderboard ==
    \E live \in Lives, character_name \in BoardCharacters, limit \in BoardLimits :
        LET view == View(World, live)
        IN \E rows \in OrderDescLimit(MostRaces(view, character_name), "total", limit) :
              Transact([op |-> "get_most_races_leaderboard",
                        character_name |-> character_name, limit |-> limit],
                       FALSE, live, [db |-> view, exc |-> None, rows |-> rows])

\* ----------------------------------------------------------- rating store
\* A rating component is a decimal number with one fractional digit, held
\* as its number of tenths: 257 is 25.7.

\* int(x) of Python: the integer part, towards zero
PyInt(x) == IF x >= 0 THEN x \div 10 ELSE -((-x) \div 10)

\* what a ladder_data column keeps of a value written to it: the value (a
\* floating column) or its integer part (an integer column)
LadderStored(x) == {x, 10 * PyInt(x)}

\* create_rating(mu=.., sigma=..): the rating subsystem's value object
create_rating(mu, sigma) == [mu |-> mu, sigma |-> sigma]

\* params = (rating.mu, rating.sigma, discord_id): INSERT INTO ladder_data
\* (discord_id, trueskill_mu, trueskill_sigma) VALUES (..) ON DUPLICATE KEY
\* UPDATE trueskill_mu=VALUES(trueskill_mu), trueskill_sigma=VALUES(..);
\* mu and sigma are what the columns keep of rating.mu and rating.sigma
set_rating(db, discord_id, mu, sigma) ==
    [db |-> [db EXCEPT !.ladder_data =
               {r \in @ : r.discord_id # discord_id} \cup
               {[discord_id |-> discord_id, trueskill_mu |-> mu,
                 trueskill_sigma |-> sigma]}],
     exc |-> None]

\* SELECT trueskill_mu, trueskill_sigma FROM ladder_data WHERE discord_id=%s;
\* create_rating(mu=int(row[0]), sigma=int(row[1])) if row is not None else None
get_rating_round(db, discord_id) ==
    LET rows == {r \in db.ladder_data : r.discord_id = discord_id}
    IN IF rows = {} THEN [db |-> db, exc |-> None, found |-> FALSE]
       ELSE LET row == CHOOSE r \in rows : TRUE
            IN [db |-> db, exc |-> None, found |-> TRUE,
                got |-> create_rating((row.trueskill_mu + 5) \div 10,
                                      (row.trueskill_sigma + 5) \div 10)]
get_rating(db, discord_id) ==
    LET rows == {r \in db.ladder_data : r.discord_id = discord_id}
    IN IF rows = {} THEN [db |-> db, exc |-> None, found |-> FALSE]
       ELSE LET row == CHOOSE r \in rows : TRUE
            IN [db |-> db, exc |-> None, found |-> TRUE,
                got |-> create_rating(PyInt(row.trueskill_mu),
                                      PyInt(row.trueskill_sigma))]

\* the ratings callers store: fractional, whole and negative components
RatingMus == {257, 250, -257}
RatingSigmas == {83, 8}
Ratings == [mu : RatingMus, sigma : RatingSigmas]

SetRating ==
    \E live \in Lives, id \in Ids, rating \in Ratings :
    \E mu \in LadderStored(rating.mu), sigma \in LadderStored(rating.sigma) :
        LET view == View(World, live)
            out == set_rating(view, id, mu, sigma)
        IN Transact([op |-> "set_rating", discord_id |-> id, rating |-> rating],
                    TRUE, live, out)

GetRating ==
    \E live \in Lives, id \in Ids :
        LET view == View(World, live)
            out == get_rating(view, id)
        IN Transact([op |-> "get_rating", discord_id |-> id], FALSE, live, out)

\* ----------------------------------------------------------- environment
\* the server or the network drops the shared connection
Drop ==
    /\ db_connection = "connected"
    /\ db_connection' = "dropped"
    /\ last' = [op |-> "drop"]
    /\ UNCHANGED <<store, session, cursor, procs>>

\* the process exits and starts again against the same store
Restart ==
    /\ db_connection # "None"
    /\ db_connection' = "None"
    /\ session' = store
    /\ cursor' = None
    /\ last' = [op |-> "restart"]
    /\ UNCHANGED <<store, procs>>

\* ------------------------------------------------------------ the inputs
Racer(id, name, time, is_finished) ==
    [id |-> id, name |-> name, time |-> time, is_finished |-> is_finished,
     igt |-> -1, comment |-> "", level |-> -2]

RaceInfo(character_str, private_race) ==
    [character_str |-> character_str, descriptor |-> "All-zones", flags |-> 0,
     seed |-> 7, seeded |-> TRUE, amplified |-> FALSE, condor_race |-> FALSE,
     private_race |-> private_race]

Race(race_info, racers) ==
    [start_datetime |-> [seconds |-> 100, microseconds |-> 5],
     race_info |-> race_info, racers |-> racers]

\* the races recorded in the ledger runs: one finisher, a non-finisher
\* entered ahead of a finisher, one discord_id entered twice
LedgerRaces ==
    { Race(RaceInfo("Cadence", FALSE), <<Racer(1, "ann", 10, TRUE)>>),
      Race(RaceInfo("Bard", TRUE),
           <<Racer(2, "bob", 0, FALSE), Racer(1, "ann", 20, TRUE)>>),
      Race(RaceInfo("Cadence", FALSE),
           <<Racer(1, "ann", 10, TRUE), Racer(1, "bob", 12, TRUE)>>) }

\* the races of the ranking runs: every list of up to MaxRankRacers racers
\* with signed times; the racer at position i has discord_id i
RankTimes == (-1)..MaxRankTime
RankEntries == [time : RankTimes, is_finished : BOOLEAN]
RankLists == UNION {[1..n -> RankEntries] : n \in 0..MaxRankRacers}
RankRaces ==
    { Race(RaceInfo("Cadence", FALSE),
           [i \in 1..Len(l) |-> Racer(i, "ann", l[i].time, l[i].is_finished)]) :
      l \in RankLists }

\* the races behind the leaderboards: users 1 and 2 with equal best times
\* in two public seeded Cadence races, a private race, an unseeded race and
\* a race of another character
BoardRaces ==
    { Race(RaceInfo("Cadence", FALSE),
           <<Racer(1, "ann", 10, TRUE), Racer(2, "bob", 12, TRUE)>>),
      Race([RaceInfo("Cadence", FALSE) EXCEPT !.seed = 8],
           <<Racer(1, "ann", 10, TRUE), Racer(2, "bob", 15, TRUE)>>),
      Race([RaceInfo("Cadence", TRUE) EXCEPT !.seed = 9],
           <<Racer(2, "bob", 12, TRUE), Racer(1, "ann", 11, TRUE)>>),
      Race([RaceInfo("Cadence", FALSE) EXCEPT !.seeded = FALSE, !.seed = 0],
           <<Racer(1, "ann", 9, TRUE)>>),
      Race(RaceInfo("Bard", FALSE),
           <<Racer(1, "ann", 10, TRUE), Racer(2, "bob", 0, FALSE)>>) }

\* the races behind the race counts: Cadence races of user 1 under two
\* flags values, an amplified one and an unseeded one
CountRaces ==
    { Race(RaceInfo("Cadence", FALSE),
           <<Racer(1, "ann", 10, TRUE), Racer(2, "bob", 12, TRUE)>>),
      Race([RaceInfo("Cadence", FALSE) EXCEPT !.flags = 1],
           <<Racer(1, "ann", 14, TRUE)>>),
      Race([RaceInfo("Cadence", FALSE) EXCEPT !.amplified = TRUE],
           <<Racer(1, "ann", 11, TRUE)>>),
      Race([RaceInfo("Cadence", FALSE) EXCEPT !.seeded = FALSE],
           <<Racer(1, "ann", 13, TRUE)>>) }

\* the race each concurrent recorder records
RecorderRaces ==
    [a |-> Race(RaceInfo("Cadence", FALSE), <<Racer(1, "ann", 10, TRUE)>>),
     b |-> Race(RaceInfo("Bard", FALSE), <<Racer(2, "bob", 12, TRUE)>>)]

\* a race whose racers carry new names for users 1 and 2
IdentityRaces ==
    { Race(RaceInfo("Cadence", FALSE),
           <<Racer(1, "bob", 10, TRUE), Racer(2, "ann", 12, TRUE)>>) }

Init ==
    /\ db_connection = "None"
    /\ store = EmptyDb
    /\ session = EmptyDb
    /\ cursor = None
    /\ last = [op |-> "init"]
    /\ procs = [p \in Executors |-> Idle]

\* the ledger: races, identities, restarts and connection losses
NextRace ==
    \/ RecordRace(LedgerRaces, TRUE)
    \/ RegisterUser
    \/ Restart

SpecRace == Init /\ [][NextRace]_vars

\* the ranking of one race recorded into an empty ledger
NextRank ==
    /\ store.race_data = {}
    /\ RecordRace(RankRaces, FALSE)

SpecRank == Init /\ [][NextRank]_vars

\* the user registry: identities and preferences
NextPrefs ==
    \/ RegisterUser
    \/ SetPrefs
    \/ GetPrefs
    \/ GetAllIdsMatchingPrefs
    \/ Drop

SpecPrefs == Init /\ [][NextPrefs]_vars

\* identities: the three identity upserts and the profile fields they must
\* leave alone
NextIdentity ==
    \/ RegisterUser
    \/ RegisterAllUsers
    \/ SetTimezone
    \/ RecordRace(IdentityRaces, FALSE)

SpecIdentity == Init /\ [][NextIdentity]_vars

\* the daily-challenge tracker
NextDaily ==
    \/ RegisterDaily
    \/ DeleteFromDaily
    \/ HasSubmittedDaily
    \/ HasRegisteredDaily

SpecDaily == Init /\ [][NextDaily]_vars

\* the latest daily of a user: registrations, submissions, withdrawals
NextLatest ==
    \/ RegisterDaily
    \/ DeleteFromDaily
    \/ RegisteredDaily
    \/ SubmittedDaily

SpecLatest == Init /\ [][NextLatest]_vars

\* the daily definitions: creation, message registration, connection losses
NextDailyDef ==
    \/ CreateDaily
    \/ RegisterDailyMessage
    \/ GetDailyMessageId
    \/ Drop

SpecDailyDef == Init /\ [][NextDailyDef]_vars

\* the leaderboards over recorded races
NextBoard ==
    \/ RecordRace(BoardRaces, FALSE)
    \/ GetFastestTimesLeaderboard

SpecBoard == Init /\ [][NextBoard]_vars

\* the race counts over recorded races and registered users
NextCounts ==
    \/ RecordRace(CountRaces, FALSE)
    \/ RegisterUser
    \/ GetAllzonesRaceNumbers
    \/ GetMostRacesLeaderboard

SpecCounts == Init /\ [][NextCounts]_vars

\* the whole engine around the race ledger: races are recorded (one of
\* them refused half-way) and every other operation is run on the ledger and
\* the user registry as a recording leaves them (and on the empty store),
\* the tables outside the ledger being empty and the profiles the default
\* ones before it (the operations on filled tables are the specifications
\* above)
NextWriteOnce ==
    \/ RecordRace(LedgerRaces, FALSE)
    \/ /\ last.op \in {"init", "record_race"}
       /\ store.daily_races = {}
       /\ store.daily_data = {}
       /\ store.ladder_data = {}
       /\ \A u \in store.user_data :
             u.timezone = "NULL" /\ u.daily_alert = 0 /\ u.race_alert = 0
       /\ \/ RegisterUser
          \/ RegisterAllUsers
          \/ SetTimezone
          \/ SetPrefs
          \/ GetPrefs
          \/ GetAllIdsMatchingPrefs
          \/ RegisterDaily
          \/ DeleteFromDaily
          \/ HasSubmittedDaily
          \/ HasRegisteredDaily
          \/ RegisteredDaily
          \/ SubmittedDaily
          \/ CreateDaily
          \/ RegisterDailyMessage
          \/ GetDailyMessageId
          \/ SetRating
          \/ GetRating
          \/ GetFastestTimesLeaderboard
          \/ GetAllzonesRaceNumbers
          \/ GetMostRacesLeaderboard

SpecWriteOnce == Init /\ [][NextWriteOnce]_vars

\* the rating store
NextRating ==
    \/ SetRating
    \/ GetRating
    \/ Drop

SpecRating == Init /\ [][NextRating]_vars

\* recordings that interleave on the shared connection
NextRecorders ==
    \E p \in Executors :
        \/ RecordRaceSelect(p, RecorderRaces)
        \/ RecordRaceInsert(p)
        \/ RecordRaceRacers(p)
        \/ RecordRaceExit(p)
        \/ Return(p)

SpecRecorders == Init /\ [][NextRecorders]_vars

\* preference updates that interleave on the shared connection, one call
\* per caller
NextSetters ==
    \/ RegisterUser
    \/ \E p \in Executors :
          \/ SetPrefsRead(p)
          \/ SetPrefsWrite(p)

SpecSetters == Init /\ [][NextSetters]_vars


\* ------------------------------------------------------------ properties
Finishers(racers) == {i \in 1..Len(racers) : racers[i].is_finished}
NonFinishers(racers) == {i \in 1..Len(racers) : ~racers[i].is_finished}
DistinctTimes(racers) ==
    \A i, j \in Finishers(racers) : i # j => racers[i].time # racers[j].time
Recorded == last.op = "record_race" /\ last.exc = None
\* the racer_data rows of the race recorded last
NewestRows(db) ==
    {q \in db.racer_data : q.race_id = MaxOf({r.race_id : r \in db.race_data})}
RowsOf(db, id) == {q \in NewestRows(db) : q.discord_id = id}

\* C1: every race row a step adds to the store has a race_id greater than
\* the race_id of every race row stored before the step, and no two stored
\* race rows share a race_id, restarts of the process included.
RaceIdStrictlyIncreasing ==
    [][ /\ \A r \in store'.race_data \ store.race_data :
              \A q \in store.race_data : r.race_id > q.race_id
        /\ \A r1, r2 \in store'.race_data : r1.race_id = r2.race_id => r1 = r2
      ]_vars
RaceIdWitness ==
    /\ Recorded
    /\ db_connection = "connected"
    /\ Cardinality(store.race_data) = MaxRaces
    /\ {r.race_id : r \in store.race_data} = 0..(MaxRaces - 1)

\* C2: a record_race call that fails at any step leaves the committed store
\* as it was before the call.
RecordRaceAllOrNothing ==
    [][ (last'.op = "record_race" /\ last'.exc # None) => store' = store ]_vars

\* C3: after a race with finishers of pairwise distinct times is recorded,
\* the finisher with k faster finishers ahead of it is stored with rank k+1,
\* so the finishers' ranks are exactly 1..N in ascending order of time.
FinisherRanksInTimeOrder ==
    (Recorded /\ DistinctTimes(last.race.racers)) =>
        LET racers == last.race.racers
            fin == Finishers(racers)
        IN /\ \A i \in fin :
                 /\ Cardinality(RowsOf(store, racers[i].id)) = 1
                 /\ \A q \in RowsOf(store, racers[i].id) :
                       q.rank = 1 + Cardinality({j \in fin : racers[j].time < racers[i].time})
           /\ {q.rank : q \in {x \in NewestRows(store) :
                                 \E i \in fin : racers[i].id = x.discord_id}}
                = 1..Cardinality(fin)
FinisherRanksWitness ==
    /\ Recorded
    /\ Len(last.race.racers) = 4
    /\ ~last.race.racers[1].is_finished
    /\ Finishers(last.race.racers) = {2, 3, 4}
    /\ last.race.racers[2].time > last.race.racers[3].time
    /\ last.race.racers[3].time > last.race.racers[4].time

\* C4 as stated: a non-finisher is stored with the rank of the last finisher
\* processed before it (the number of finishers), or 1 if there is none.
NonFinisherTiesLastFinisher ==
    Recorded =>
        LET racers == last.race.racers
            n == Cardinality(Finishers(racers))
        IN \A i \in NonFinishers(racers) : \A q \in RowsOf(store, racers[i].id) :
              q.rank = IF n = 0 THEN 1 ELSE n
\* C4 as amended: every non-finisher is stored with the rank one greater
\* than the number of finishers of the race (one past the last finisher's
\* rank; 1 if nobody finished): 3 finishers and 1 non-finisher store rank 4.
NonFinisherRankFollowsFinishers ==
    Recorded =>
        LET racers == last.race.racers
            n == Cardinality(Finishers(racers))
        IN \A i \in NonFinishers(racers) :
              /\ Cardinality(RowsOf(store, racers[i].id)) = 1
              /\ \A q \in RowsOf(store, racers[i].id) : q.rank = n + 1
NonFinisherRankWitness ==
    /\ Recorded
    /\ Len(last.race.racers) = 4
    /\ Cardinality(Finishers(last.race.racers)) = 3
    /\ \E q \in NewestRows(store) :
          /\ q.rank = 4
          /\ \E i \in NonFinishers(last.race.racers) : last.race.racers[i].id = q.discord_id

\* C5: in every committed state every racer_data row's discord_id has a
\* user_data row.
EveryRacerHasUser ==
    \A q \in store.racer_data : HasUser(store, q.discord_id)

\* C10: after a successful identity upsert (register_user, or the upsert of
\* each racer inside a recorded race) the store holds exactly one user_data
\* row for that discord_id and its name is the name just supplied.
UpsertKeepsOneRowWithNewName ==
    /\ (last.op = "register_user" /\ last.exc = None) =>
          /\ Cardinality(UserRows(store, last.member.id)) = 1
          /\ NamesOf(store, last.member.id) = {last.member.name}
    /\ Recorded =>
          \A i \in 1..Len(last.race.racers) :
             /\ Cardinality(UserRows(store, last.race.racers[i].id)) = 1
             /\ NamesOf(store, last.race.racers[i].id) = {last.race.racers[i].name}
\* a race renames a user stored under another name
UpsertTwiceWitness ==
    /\ Recorded
    /\ \E i \in 1..Len(last.race.racers) :
          /\ last.had[i] # {}
          /\ last.race.racers[i].name \notin last.had[i]
UpsertTwiceByRegisterWitness ==
    /\ last.op = "register_user" /\ last.exc = None
    /\ last.had # {}
    /\ last.member.name \notin last.had

\* the tinyint a supplied preference is stored as
Stored(b) == IF b = "True" THEN 1 ELSE 0

\* C6: a successful set_prefs on an existing user leaves one row for the
\* user in which each of daily_alert and race_alert holds the supplied value
\* if the partial preferences set the field and the value stored before the
\* call if they leave it unset.
SetPrefsMergesPerField ==
    [][ (/\ last'.op = "set_prefs"
         /\ last'.exc = None
         /\ HasUser(store, last'.discord_id)) =>
           LET id == last'.discord_id
               p == last'.user_prefs
           IN /\ Cardinality(UserRows(store', id)) = 1
              /\ \A u \in UserRows(store, id) : \A v \in UserRows(store', id) :
                    /\ v.daily_alert = IF p.daily_alert = None THEN u.daily_alert
                                       ELSE Stored(p.daily_alert)
                    /\ v.race_alert = IF p.race_alert = None THEN u.race_alert
                                      ELSE Stored(p.race_alert)
      ]_vars
\* only daily_alert=True is set and the race_alert=True stored earlier stays
SetPrefsMergeWitness ==
    /\ last.op = "set_prefs" /\ last.exc = None
    /\ last.user_prefs = [daily_alert |-> "True", race_alert |-> None]
    /\ \E u \in UserRows(store, last.discord_id) :
          u.daily_alert = 1 /\ u.race_alert = 1

\* C7: set_prefs for a discord_id without a user_data row succeeds and
\* leaves a row for it that holds the supplied preferences.
SetPrefsCreatesUser ==
    [][ (/\ last'.op = "set_prefs"
         /\ last'.exc # "RuntimeError"
         /\ ~HasUser(store, last'.discord_id)) =>
           /\ last'.exc = None
           /\ \E v \in UserRows(store', last'.discord_id) :
                 /\ last'.user_prefs.daily_alert # None =>
                       v.daily_alert = Stored(last'.user_prefs.daily_alert)
                 /\ last'.user_prefs.race_alert # None =>
                       v.race_alert = Stored(last'.user_prefs.race_alert)
      ]_vars

\* C8: get_prefs for a discord_id without a user_data row raises (the
\* missing-row dereference), returns no preferences, and leaves the store
\* and the session unchanged.
GetPrefsMissingUserFails ==
    [][ (/\ last'.op = "get_prefs"
         /\ last'.exc # "RuntimeError"
         /\ ~HasUser(store, last'.discord_id)) =>
           /\ last'.exc = "TypeError"
           /\ "prefs" \notin DOMAIN last'
           /\ store' = store
           /\ session' = session
      ]_vars
GetPrefsMissingWitness ==
    /\ last.op = "get_prefs" /\ last.exc = "TypeError"
    /\ ~HasUser(store, last.discord_id)
    /\ store.user_data # {}

\* C9: a register_daily leaves a row for its key; no call removes a row; and
\* after delete_from_daily on a key that has a row, has_submitted_daily is
\* false and has_registered_daily is true for that key.
WithdrawKeepsRegistration ==
    [][ /\ (last'.op = "register_daily" /\ last'.exc = None) =>
              /\ has_registered_daily(store', last'.discord_id, last'.daily_id, last'.daily_type)
              /\ has_submitted_daily(store', last'.discord_id, last'.daily_id, last'.daily_type)
                   = (last'.level # -1)
        /\ \A r \in store.daily_races :
              has_registered_daily(store', r.discord_id, r.daily_id, r.type)
        /\ (/\ last'.op = "delete_from_daily"
            /\ last'.exc = None
            /\ has_registered_daily(store, last'.discord_id, last'.daily_id, last'.daily_type)) =>
              /\ ~has_submitted_daily(store', last'.discord_id, last'.daily_id, last'.daily_type)
              /\ has_registered_daily(store', last'.discord_id, last'.daily_id, last'.daily_type)
      ]_vars
\* a submitted run was withdrawn: its row is kept, with its time
WithdrawWitness ==
    /\ last.op = "delete_from_daily" /\ last.exc = None
    /\ \E r \in DailyRows(store, last.discord_id, last.daily_id, last.daily_type) :
          r.level = -1 /\ r.time = 500

\* C11: create_daily for a (daily_id, type) that already has a definition
\* fails with the server's constraint violation (IntegrityError), and the
\* definitions, the seed and msg_id of the existing one included, are as
\* they were.
CreateDailyDuplicateFails ==
    [][(/\ last'.op = "create_daily"
        /\ last'.exc # "RuntimeError"
        /\ DailyDataRows(store, last'.daily_id, last'.daily_type) # {})
       => (/\ last'.exc = "IntegrityError"
           /\ store'.daily_data = store.daily_data)]_vars

CreateDailyDuplicateWitness ==
    /\ last.op = "create_daily"
    /\ last.exc = "IntegrityError"
    /\ \E r \in DailyDataRows(store, last.daily_id, last.daily_type) :
          r.seed # last.seed /\ r.msg_id # last.message_id

\* C12: get_fastest_times_leaderboard returns at most one row per user, and
\* the row carries the user's minimum qualifying time.
FastestOneRowPerUser ==
    last.op = "get_fastest_times_leaderboard" /\ last.exc = None
    => /\ \A i, k \in 1..Len(last.rows) :
            i # k => last.rows[i].discord_id # last.rows[k].discord_id
       /\ \A i \in 1..Len(last.rows) :
            \E rd1 \in MinTimes(store, last.character_name, last.amplified) :
               /\ rd1.discord_id = last.rows[i].discord_id
               /\ rd1.min_time = last.rows[i].time

\* C13: every row get_fastest_times_leaderboard returns is built from a
\* racer row and a race that satisfy the qualifying filter (character,
\* All-zones, seeded, not private, the requested amplified, time > 0,
\* level -2).
FastestRowsQualify ==
    last.op = "get_fastest_times_leaderboard" /\ last.exc = None
    => \A i \in 1..Len(last.rows) :
          \E j \in RaceJoin(store) :
             /\ j.q.race_id = last.rows[i].race_id
             /\ j.q.discord_id = last.rows[i].discord_id
             /\ Qualifies(j.q, j.g, last.character_name, last.amplified)

\* the integer part of a number of tenths: the whole number nearest to it
\* among those between zero and it
IntegerPart(x) ==
    CHOOSE n \in -100..100 :
        /\ (x >= 0 => (10 * n <= x /\ x < 10 * (n + 1)))
        /\ (x < 0 => (10 * n >= x /\ x > 10 * (n - 1)))

\* C14: get_rating right after set_rating(discord_id, Rating(mu, sigma))
\* returns the rating built from the integer parts of mu and sigma, taken
\* towards zero (25.7, 8.3 gives 25, 8).
RatingReadsBackIntegerPart ==
    [][(/\ last.op = "set_rating" /\ last.exc = None
        /\ last'.op = "get_rating" /\ last'.exc = None
        /\ last'.discord_id = last.discord_id)
       => (/\ last'.found
           /\ last'.got = [mu |-> IntegerPart(last.rating.mu),
                           sigma |-> IntegerPart(last.rating.sigma)])]_vars

RatingTruncatedWitness ==
    /\ last.op = "get_rating"
    /\ last.exc = None
    /\ last.found
    /\ last.got = [mu |-> 25, sigma |-> 8]
    /\ \E r \in store.ladder_data :
          /\ r.discord_id = last.discord_id
          /\ r.trueskill_mu = 257
          /\ r.trueskill_sigma = 83

\* C15: get_all_ids_matching_prefs returns exactly the discord_ids of the
\* user rows whose stored daily_alert and race_alert equal every field the
\* argument sets, and nothing when the argument sets no field.
MatchingPrefsExact ==
    last.op = "get_all_ids_matching_prefs" /\ last.exc = None
    => IF last.user_prefs.daily_alert = None /\ last.user_prefs.race_alert = None
       THEN last.ids = {}
       ELSE \A id \in Ids :
              id \in last.ids <=>
                \E u \in store.user_data :
                   /\ u.discord_id = id
                   /\ \A f \in {"daily_alert", "race_alert"} :
                         last.user_prefs[f] # None
                         => PyBool(u[f]) = last.user_prefs[f]

MatchingPrefsWitness ==
    /\ last.op = "get_all_ids_matching_prefs"
    /\ last.exc = None
    /\ last.user_prefs = [daily_alert |-> "True", race_alert |-> "False"]
    /\ last.ids = {1}
    /\ \E u \in store.user_data : u.discord_id = 2 /\ u.daily_alert = 1 /\ u.race_alert = 1

\* the calls that opened a cursor scope, and those that tried to
Acquired(l) ==
    /\ l.op \notin {"init", "drop", "restart"}
    /\ l.exc # "RuntimeError"
    /\ ~(l.op = "get_all_ids_matching_prefs" /\ is_empty(l.user_prefs))
Attempted(l) ==
    /\ l.op \notin {"init", "drop", "restart"}
    /\ (l.exc = "RuntimeError" \/ Acquired(l))

\* the functions that open their scope with commit=True
WriteOps ==
    {"register_user", "set_prefs", "record_race", "register_daily",
     "delete_from_daily", "create_daily", "register_daily_message", "set_rating"}

NoCursorOnDeadConnection ==
    [][(Attempted(last') /\ db_connection # "connected")
       => IF last'.exc = "RuntimeError"
          THEN /\ last'.attempts = 1
               /\ cursor' = None
               /\ DOMAIN last' = {"op", "exc", "attempts"}
               /\ UNCHANGED <<db_connection, store, session>>
          ELSE db_connection' = "connected" /\ cursor' = "closed"]_vars

ReconnectFailedWitness ==
    /\ last.op = "create_daily"
    /\ last.exc = "RuntimeError"
    /\ db_connection = "dropped"
    /\ store.daily_data # {}

\* the rows an execution's race has in a database under its race_id
OwnRows(db, rec) ==
    {g \in db.race_data :
        /\ g.race_id = rec.new_raceid
        /\ g.character_name = rec.race.race_info.character_str} \cup
    {q \in db.racer_data :
        /\ q.race_id = rec.new_raceid
        /\ \E i \in 1..Len(rec.race.racers) : rec.race.racers[i].id = q.discord_id}

RaceInsertRefused(rec) ==
    rec.pc \in {"raised", "done"} /\ rec.exc = "IntegrityError"

\* C18: a record_race execution whose race insert finds its race_id taken
\* (another execution read the same maximum and inserted first) gets the
\* constraint violation, which goes to its caller without another attempt;
\* no row of its race is written or committed; race_data never holds two
\* rows of one race_id.
DuplicateRaceIdRefused ==
    /\ [][\A p \in Executors :
            (/\ procs[p].pc = "selected"
             /\ procs'[p] # procs[p]
             /\ \E g \in session.race_data : g.race_id = procs[p].new_raceid)
            => (/\ procs'[p] = [procs[p] EXCEPT !.pc = "raised", !.exc = "IntegrityError"]
                /\ session' = session)]_vars
    /\ [][\A p \in Executors :
            (procs[p].pc = "raised" /\ procs'[p] # procs[p])
            => procs'[p] = [procs[p] EXCEPT !.pc = "done"]]_vars
    /\ [](\A p \in Executors :
            RaceInsertRefused(procs[p])
            => OwnRows(store, procs[p]) = {} /\ OwnRows(session, procs[p]) = {})
    /\ [](\A db \in {store, session} :
            \A g, h \in db.race_data : g.race_id = h.race_id => g = h)

DuplicateRaceIdWitness ==
    \E p, q \in Executors :
        /\ RaceInsertRefused(procs[p])
        /\ procs[p].pc = "done"
        /\ procs[q].pc = "done"
        /\ procs[q].exc = None
        /\ procs[q].new_raceid = procs[p].new_raceid
        /\ OwnRows(store, procs[q]) # {}

\* C19: when set_prefs calls on one user have interleaved in any way, each
\* of daily_alert and race_alert is stored with the value of the last call
\* (in the order of the writes) that set that field.
SetPrefsLastWriteWinsPerField ==
    \A p, q \in Executors :
        (/\ procs[p].pc = "done" /\ procs[p].exc = None
         /\ procs[q].pc = "done" /\ procs[q].exc = None
         /\ procs[p].discord_id = procs[q].discord_id
         /\ procs[p].order < procs[q].order)
        => \A f \in {"daily_alert", "race_alert"} :
              LET supplied == IF procs[q].user_prefs[f] # None
                              THEN procs[q].user_prefs[f]
                              ELSE procs[p].user_prefs[f]
              IN supplied # None
                 => \A u \in UserRows(store, procs[p].discord_id) :
                       PyBool(u[f]) = supplied

\* C20: record_race processes every non-finisher after every finisher,
\* whatever the sign of the finishers' times and also without finishers, and
\* no finisher is stored with a rank greater than a non-finisher's.
NonFinishersAfterFinishers ==
    Recorded =>
        LET racers == last.race.racers
            max_time == MaxFinishedTime(racers, 1, 0) + 1
            racer_list == SortRacers(racers, Len(racers), max_time)
        IN /\ \A i, j \in 1..Len(racer_list) :
                 (i < j /\ racer_list[j].is_finished) => racer_list[i].is_finished
           /\ \A i \in Finishers(racers), j \in NonFinishers(racers) :
                 \A q \in RowsOf(store, racers[i].id), r \in RowsOf(store, racers[j].id) :
                    q.rank <= r.rank

NonFinishersAfterFinishersWitness ==
    /\ Recorded
    /\ Len(last.race.racers) = 4
    /\ ~last.race.racers[1].is_finished
    /\ last.race.racers[1].time = -1
    /\ {last.race.racers[i].time : i \in Finishers(last.race.racers)} = {-1, 0, 1}
    /\ \E r \in RowsOf(store, last.race.racers[1].id) : r.rank = 4

\* the stored rank of the racer at position i of the race recorded last
RankOf(i) == (CHOOSE q \in RowsOf(store, last.race.racers[i].id) : TRUE).rank

\* the finishers have the ranks 1..N, each once
FinisherRanksGapFree ==
    LET racers == last.race.racers
        fin == Finishers(racers)
    IN /\ \A i \in 1..Len(racers) : Cardinality(RowsOf(store, racers[i].id)) = 1
       /\ {RankOf(i) : i \in fin} = 1..Cardinality(fin)
       /\ \A i, j \in fin : i # j => RankOf(i) # RankOf(j)

\* C21 as stated: with equal times among the finishers the finishers still
\* have the distinct ranks 1..N, and of two participants with equal
\* effective time (a non-finisher's is max_time) the one earlier in the
\* caller's list has the lower rank.
TiesRankedByInputOrder ==
    Recorded =>
        LET racers == last.race.racers
            max_time == MaxFinishedTime(racers, 1, 0) + 1
        IN /\ FinisherRanksGapFree
           /\ \A i, j \in 1..Len(racers) :
                 (i < j /\ SortKey(racers[i], max_time) = SortKey(racers[j], max_time))
                 => RankOf(i) < RankOf(j)

\* C21 as amended: with equal times among the finishers the finishers still
\* have the distinct ranks 1..N, and of two finishers with equal times the
\* one earlier in the caller's list has the lower rank; non-finishers, whose
\* effective times are all equal, all have the same rank N+1.
TiedFinishersRankedByInputOrder ==
    Recorded =>
        LET racers == last.race.racers
            fin == Finishers(racers)
        IN /\ FinisherRanksGapFree
           /\ \A i, j \in fin :
                 (i < j /\ racers[i].time = racers[j].time) => RankOf(i) < RankOf(j)
           /\ \A i \in NonFinishers(racers) : RankOf(i) = Cardinality(fin) + 1

TiedFinishersWitness ==
    /\ Recorded
    /\ Len(last.race.racers) = 4
    /\ Finishers(last.race.racers) = {1, 2}
    /\ last.race.racers[1].time = last.race.racers[2].time
    /\ RankOf(1) = 1 /\ RankOf(2) = 2
    /\ RankOf(3) = 3 /\ RankOf(4) = 3

\* C22: register_daily is a full upsert on (discord_id, daily_id, type):
\* after a call the key has one row, with the level and time of that call,
\* and the rows of other keys are as before, so a call with level -1 after
\* a submission leaves has_submitted_daily false; no key ever has two rows.
RegisterDailyIsFullUpsert ==
    /\ [][(last'.op = "register_daily" /\ last'.exc = None)
          => LET row == [discord_id |-> last'.discord_id, daily_id |-> last'.daily_id,
                         type |-> last'.daily_type, level |-> last'.level,
                         time |-> last'.time]
             IN /\ store'.daily_races =
                      {r \in store.daily_races : DailyKey(r) # DailyKey(row)} \cup {row}
                /\ has_submitted_daily(store', row.discord_id, row.daily_id, row.type)
                      = (row.level # -1)]_vars
    /\ [](\A r1, r2 \in store.daily_races : DailyKey(r1) = DailyKey(r2) => r1 = r2)

RegisterDailyRevertWitness ==
    /\ last.op = "register_daily"
    /\ last.exc = None
    /\ last.level = -1
    /\ ~has_submitted_daily(store, last.discord_id, last.daily_id, last.daily_type)
    /\ has_registered_daily(store, last.discord_id, last.daily_id, last.daily_type)
    /\ \E r \in store.daily_races :
          r.discord_id = last.discord_id /\ r.daily_id # last.daily_id /\ r.level # -1

\* C23: submitted_daily returns the greatest daily_id among the user's rows
\* of the type with level != -1, or 0 without such a row (so not a daily the
\* user withdrew from), and never more than registered_daily returns.
SubmittedDailyIsLatestSubmission ==
    (last.op = "submitted_daily" /\ last.exc # "RuntimeError")
    => LET rows == {r \in store.daily_races :
                      /\ r.discord_id = last.discord_id
                      /\ r.type = last.daily_type
                      /\ r.level # -1}
       IN /\ last.exc = None
          /\ last.latest = IF rows = {} THEN 0 ELSE MaxOf({r.daily_id : r \in rows})
          /\ last.latest <= registered_daily(store, last.discord_id, last.daily_type).latest

IdentityOps == {"register_user", "register_all_users", "record_race"}
IdentityUpsert(l) == l.op \in IdentityOps /\ l.exc = None
\* the arguments of an identity upsert call, and the discord_ids it names
IdentityArgs(l) ==
    IF l.op = "register_user" THEN <<l.member>>
    ELSE IF l.op = "register_all_users" THEN l.members
    ELSE l.race.racers
NamedIds(l) == {IdentityArgs(l)[i].id : i \in 1..Len(IdentityArgs(l))}

\* C24: an identity upsert (register_user, register_all_users, the upsert
\* of record_race) leaves every existing user row as it was except for the
\* name of the rows it names, and leaves one row per user; the same call
\* made again right away leaves user_data unchanged.
IdentityUpsertChangesNameOnly ==
    /\ [][IdentityUpsert(last')
          => \A u \in store.user_data :
                /\ Cardinality(UserRows(store', u.discord_id)) = 1
                /\ \A v \in UserRows(store', u.discord_id) :
                      /\ v = [u EXCEPT !.name = v.name]
                      /\ (u.discord_id \notin NamedIds(last') => v = u)]_vars
    /\ [][(/\ IdentityUpsert(last) /\ IdentityUpsert(last')
           /\ last'.op = last.op
           /\ IdentityArgs(last') = IdentityArgs(last))
          => store'.user_data = store.user_data]_vars

IdentityUpsertFrameWitness ==
    /\ last.op = "register_user"
    /\ last.exc = None
    /\ last.had # {} /\ last.had # {last.member.name}
    /\ \E u \in UserRows(store, last.member.id) :
          /\ u.name = last.member.name
          /\ u.timezone # NULL
    /\ \E u \in store.user_data : u.discord_id # last.member.id /\ u.timezone # NULL

\* C25: get_allzones_race_numbers returns one row per character: no
\* character is in two rows, and a row's count is the number of the user's
\* All-zones, seeded, public races of the requested amplified for that
\* character, whatever the races' flags.
RaceNumbersOneRowPerCharacter ==
    (last.op = "get_allzones_race_numbers" /\ last.exc = None)
    => /\ \A i, k \in 1..Len(last.rows) :
             i # k => last.rows[i].character_name # last.rows[k].character_name
       /\ \A i \in 1..Len(last.rows) :
             last.rows[i].num =
                Cardinality({j \in AllzonesRows(store, last.discord_id, last.amplified) :
                               j.g.character_name = last.rows[i].character_name})

\* C26: with limit at least the number of user rows, get_most_races_leaderboard
\* returns a row for every user row, users without matching races and users
\* without any race result included, each total being num_predlc +
\* num_postdlc, in descending total.
MostRacesCoversEveryUser ==
    (/\ last.op = "get_most_races_leaderboard" /\ last.exc = None
     /\ last.limit >= Cardinality(store.user_data))
    => /\ \A u \in store.user_data :
             \E i \in 1..Len(last.rows) : last.rows[i].user_name = u.name
       /\ \A i \in 1..Len(last.rows) :
             last.rows[i].total = last.rows[i].num_predlc + last.rows[i].num_postdlc
       /\ \A i, k \in 1..Len(last.rows) :
             i < k => last.rows[i].total >= last.rows[k].total

\* C27: race_data and racer_data rows are write-once: a record_race that
\* completes adds exactly one race_data row and one racer_data row per
\* participant, all of the new race, and keeps every stored row of the two
\* tables as it is; every operation other than record_race leaves the two
\* tables as they are.
RaceRowsWriteOnce ==
    [][ IF last'.op = "record_race"
        THEN last'.exc = None =>
               /\ store.race_data \subseteq store'.race_data
               /\ store.racer_data \subseteq store'.racer_data
               /\ Cardinality(store'.race_data \ store.race_data) = 1
               /\ Cardinality(store'.racer_data \ store.racer_data)
                     = Len(last'.race.racers)
               /\ \A q \in store'.racer_data \ store.racer_data :
                     \A g \in store'.race_data \ store.race_data :
                        q.race_id = g.race_id
        ELSE /\ store'.race_data = store.race_data
             /\ store'.racer_data = store.racer_data ]_vars

\* two races are stored, the second with a finisher and a non-finisher, and
\* a rating has since been written
RaceRowsWriteOnceWitness ==
    /\ last.op = "set_rating" /\ last.exc = None
    /\ store.ladder_data # {}
    /\ Cardinality(store.race_data) = 2
    /\ Cardinality(store.racer_data) = 3
    /\ \E q \in store.racer_data : q.race_id = 1 /\ q.rank = 2

====
